---- MODULE Spec2Model ----
(***************************************************************************)
(* Model of the M-Pesa SMS tracker backend: the parsing core               *)
(* (src/app/parser.py), and the ingestion endpoint with its store and      *)
(* daily-limit bookkeeping (src/app/main.py, database.py, agent.py).       *)
(*                                                                         *)
(* A Python str is modelled as a sequence of one-character strings, so     *)
(* that the regular expressions of the parser can be evaluated character   *)
(* by character.  Values that may be None are tagged records: None, Str(s)  *)
(* for a str, and for a float either Inf or Float(int, frac), the decimal  *)
(* it was converted from (the digits of its integer part without leading   *)
(* zeros and of its fraction without trailing zeros; the binary rounding   *)
(* of the mantissa is not modelled).                                       *)
(***************************************************************************)
EXTENDS Integers, Sequences, FiniteSets, TLC

None == [t |-> "None"]
Str(s) == [t |-> "str", v |-> s]
Float(ip, fp) == [t |-> "float", int |-> ip, frac |-> fp]
Inf == [t |-> "inf"]
\* the exception float() raises, as a value
ValueError == [t |-> "ValueError"]

(* ----------------------------- characters ------------------------------ *)

UpperChars == <<"A","B","C","D","E","F","G","H","I","J","K","L","M","N","O","P","Q","R","S","T","U","V","W","X","Y","Z">>
LowerChars == <<"a","b","c","d","e","f","g","h","i","j","k","l","m","n","o","p","q","r","s","t","u","v","w","x","y","z">>
DigitChars == <<"0","1","2","3","4","5","6","7","8","9">>

Upper == {UpperChars[i] : i \in 1..26}
Letter == Upper \cup {LowerChars[i] : i \in 1..26}
Digit == {DigitChars[i] : i \in 1..10}
\* \s of the re module, on the characters the model uses
Space == {" ", "\n"}
\* \w of the re module
Word == Letter \cup Digit \cup {"_"}

\* str.lower() on one character
Lower(c) ==
    IF c \in Upper THEN LowerChars[CHOOSE i \in 1..26 : UpperChars[i] = c] ELSE c

\* str.lower()
LowerStr(s) == [i \in 1..Len(s) |-> Lower(s[i])]

Min(S) == CHOOSE x \in S : \A y \in S : x <= y

\* the character at position i, "" outside the string
At(s, i) == IF i >= 1 /\ i <= Len(s) THEN s[i] ELSE ""

\* the literal lit at position i of s (lit in s[i:], anchored)
LitAt(s, i, lit) ==
    /\ i >= 1
    /\ i + Len(lit) - 1 <= Len(s)
    /\ \A k \in 1..Len(lit) : s[i + k - 1] = lit[k]

\* the lowercase literal lit at position i of s under re.IGNORECASE
LitAtCI(s, i, lit) ==
    /\ i >= 1
    /\ i + Len(lit) - 1 <= Len(s)
    /\ \A k \in 1..Len(lit) : Lower(s[i + k - 1]) = lit[k]

\* the "in" operator of str: kw is a substring of s
Contains(s, kw) == \E i \in 1..(Len(s) + 1) : LitAt(s, i, kw)

\* the end of a greedy run C* starting at i: the first position from i on
\* whose character is not in C
RunEnd(s, i, C) ==
    IF i > Len(s) THEN i ELSE Min({j \in i..(Len(s) + 1) : At(s, j) \notin C})

\* no "\n" in s[i..j-1]: what the lazy .*? may span (re without DOTALL)
DotSpan(s, i, j) == \A k \in i..(j - 1) : s[k] # "\n"

(* ------------------------- the numeric capture ------------------------- *)

\* \s*([\d,]+\.?\d*) anchored at p: the span [from, to) of group 1, or None.
\* Every part is greedy and the parts after [\d,]+ may match empty, so the
\* first attempt of the backtracking matcher is the match.
NumCapture(s, p) ==
    LET q == RunEnd(s, p, Space)
        r == RunEnd(s, q, Digit \cup {","})
        d == IF At(s, r) = "." THEN r + 1 ELSE r
        e == RunEnd(s, d, Digit)
    IN  IF r > q THEN [from |-> q, to |-> e] ELSE None

\* match.group(1) of a match whose group 1 is the span c
Group(s, c) == SubSeq(s, c.from, c.to - 1)

\* str.replace(",", "")
RemoveCommas(t) == SelectSeq(t, LAMBDA c : c # ",")

\* the smallest integer part float() rounds to inf: 2^1024 - 2^970
FloatOverflow ==
    <<"1","7","9","7","6","9","3","1","3","4","8","6","2","3","1","5","8","0","7","9","3","7","2","8","9","7","1","4","0","5","3","0","3","4","1","5","0","7","9","9","3","4","1","3","2","7","1","0","0","3","7","8","2","6","9","3","6","1","7","3","7","7","8","9","8","0","4","4","4","9","6","8","2","9","2","7","6","4","7","5","0","9","4","6","6","4","9","0","1","7","9","7","7","5","8","7","2","0","7","0","9","6","3","3","0","2","8","6","4","1","6","6","9","2","8","8","7","9","1","0","9","4","6","5","5","5","5","4","7","8","5","1","9","4","0","4","0","2","6","3","0","6","5","7","4","8","8","6","7","1","5","0","5","8","2","0","6","8","1","9","0","8","9","0","2","0","0","0","7","0","8","3","8","3","6","7","6","2","7","3","8","5","4","8","4","5","8","1","7","7","1","1","5","3","1","7","6","4","4","7","5","7","3","0","2","7","0","0","6","9","8","5","5","5","7","1","3","6","6","9","5","9","6","2","2","8","4","2","9","1","4","8","1","9","8","6","0","8","3","4","9","3","6","4","7","5","2","9","2","7","1","9","0","7","4","1","6","8","4","4","4","3","6","5","5","1","0","7","0","4","3","4","2","7","1","1","5","5","9","6","9","9","5","0","8","0","9","3","0","4","2","8","8","0","1","7","7","9","0","4","1","7","4","4","9","7","7","9","2">>

DigitVal(c) == (CHOOSE i \in 1..10 : DigitChars[i] = c) - 1

\* digit strings without leading zeros, compared as numbers
DigitsGE(a, b) ==
    \/ Len(a) > Len(b)
    \/ /\ Len(a) = Len(b)
       /\ \/ a = b
          \/ \E k \in 1..Len(a) :
                /\ \A m \in 1..(k - 1) : a[m] = b[m]
                /\ DigitVal(a[k]) > DigitVal(b[k])

StripLeadingZeros(t) == SubSeq(t, RunEnd(t, 1, {"0"}), Len(t))

StripTrailingZeros(t) ==
    LET last == {k \in 1..Len(t) : t[k] # "0"}
    IN  IF last = {} THEN << >> ELSE SubSeq(t, 1, CHOOSE k \in last : \A m \in last : m <= k)

\* float(t) for t matching \d*\.?\d* : ValueError when t holds no digit, Inf
\* when the value is beyond the double range
ToFloat(t) ==
    LET dot == RunEnd(t, 1, Digit)
        ip == StripLeadingZeros(SubSeq(t, 1, dot - 1))
        fp == StripTrailingZeros(SubSeq(t, dot + 1, Len(t)))
    IN  IF \A k \in 1..Len(t) : t[k] \notin Digit THEN ValueError
        ELSE IF DigitsGE(ip, FloatOverflow) THEN Inf
        ELSE Float(ip, fp)

\* the try block of the extractors: the captured text without its commas,
\* converted
Convert(s, c) == ToFloat(RemoveCommas(Group(s, c)))

\* mutant of FirstConverted: no try/except around float(), so the first
\* conversion that fails leaves the extractor as an exception
FirstConverted_Uncaught(s, caps) ==
    LET hit == {k \in 1..Len(caps) : caps[k] # None}
    IN  IF hit = {} THEN None ELSE Convert(s, caps[Min(hit)])

\* mutant of FirstConverted: "except ValueError: return None", so the
\* patterns after a failed conversion are not tried
FirstConverted_GivesUp(s, caps) ==
    LET hit == {k \in 1..Len(caps) : caps[k] # None}
    IN  IF hit = {} \/ Convert(s, caps[Min(hit)]) = ValueError THEN None
        ELSE Convert(s, caps[Min(hit)])

\* the loop of extract_amount and extract_balance over the group-1 spans of
\* its patterns (None where a pattern did not match): the first value that
\* converts is returned; "except ValueError: continue" goes on to the next
\* pattern, and None is returned after the last
FirstConverted(s, caps) ==
    LET good == {k \in 1..Len(caps) : caps[k] # None /\ Convert(s, caps[k]) # ValueError}
    IN  IF good = {} THEN None ELSE Convert(s, caps[Min(good)])

(* ---------------------------- extract_amount --------------------------- *)

\* re.search of <lit>\s*([\d,]+\.?\d*) : group 1 of the leftmost match
SearchLitNum(s, lit) ==
    LET starts == {i \in 1..Len(s) : LitAtCI(s, i, lit) /\ NumCapture(s, i + Len(lit)) # None}
    IN  IF starts = {} THEN None ELSE NumCapture(s, Min(starts) + Len(lit))

\* amount\s+(?:of\s+)?Ksh\s*([\d,]+\.?\d*) anchored at i: group 1 or None
AmountOfAt(s, i) ==
    LET a == i + 6
        b == RunEnd(s, a, Space)
        o == RunEnd(s, b + 2, Space)
        withOf == LitAtCI(s, b, <<"o","f">>) /\ o > b + 2 /\ LitAtCI(s, o, <<"k","s","h">>)
    IN  IF ~(LitAtCI(s, i, <<"a","m","o","u","n","t">>) /\ b > a) THEN None
        ELSE IF withOf THEN NumCapture(s, o + 3)
        ELSE IF LitAtCI(s, b, <<"k","s","h">>) THEN NumCapture(s, b + 3)
        ELSE None

SearchAmountOf(s) ==
    LET starts == {i \in 1..Len(s) : AmountOfAt(s, i) # None}
    IN  IF starts = {} THEN None ELSE AmountOfAt(s, Min(starts))

AmountCaptures(message) ==
    << SearchLitNum(message, <<"k","s","h">>), SearchLitNum(message, <<"k","e","s">>), SearchAmountOf(message) >>

extract_amount(message) == FirstConverted(message, AmountCaptures(message))

(* ----------------------- extract_transaction_code ---------------------- *)

\* mutant of WordBoundary: a boundary of letters and digits only, "_" apart
WordBoundary_Alnum(s, p) ==
    (At(s, p - 1) \in Letter \cup Digit) # (At(s, p) \in Letter \cup Digit)

\* \b at position p: exactly one of the characters around it is a \w
WordBoundary(s, p) == (At(s, p - 1) \in Word) # (At(s, p) \in Word)

\* \b([A-Z]{2}\d{2}[A-Z0-9]{5,6})\b anchored at i: the length of group 1
\* (the greedy 6 first, then 5), or 0
CodeLenAt(s, i) ==
    LET shape(n) ==
            /\ At(s, i) \in Upper /\ At(s, i + 1) \in Upper
            /\ At(s, i + 2) \in Digit /\ At(s, i + 3) \in Digit
            /\ \A k \in 4..(n - 1) : At(s, i + k) \in Upper \cup Digit
            /\ WordBoundary(s, i + n)
    IN  IF ~WordBoundary(s, i) THEN 0
        ELSE IF shape(10) THEN 10
        ELSE IF shape(9) THEN 9
        ELSE 0

extract_transaction_code(message) ==
    LET starts == {i \in 1..Len(message) : CodeLenAt(message, i) > 0}
    IN  IF starts = {} THEN None
        ELSE LET i == Min(starts) IN Str(SubSeq(message, i, i + CodeLenAt(message, i) - 1))

(* --------------------------- extract_balance --------------------------- *)

\* balance (?:is|was)\s+Ksh\s*([\d,]+\.?\d*) anchored at i
BalanceIsAt(s, i) ==
    LET v == IF LitAtCI(s, i + 8, <<"i","s">>) THEN i + 10
             ELSE IF LitAtCI(s, i + 8, <<"w","a","s">>) THEN i + 11 ELSE 0
        k == RunEnd(s, v, Space)
    IN  IF LitAtCI(s, i, <<"b","a","l","a","n","c","e"," ">>) /\ v > 0 /\ k > v /\ LitAtCI(s, k, <<"k","s","h">>)
        THEN NumCapture(s, k + 3) ELSE None

SearchBalanceIs(s) ==
    LET starts == {i \in 1..Len(s) : BalanceIsAt(s, i) # None}
    IN  IF starts = {} THEN None ELSE BalanceIsAt(s, Min(starts))

\* .*?Ksh\s*([\d,]+\.?\d*) anchored at p: the lazy .*? stops at the first Ksh
\* on the line from which the number matches
LazyKshAt(s, p) ==
    LET ks == {k \in p..Len(s) : /\ DotSpan(s, p, k)
                                 /\ LitAtCI(s, k, <<"k","s","h">>)
                                 /\ NumCapture(s, k + 3) # None}
    IN  IF ks = {} THEN None ELSE NumCapture(s, Min(ks) + 3)

\* balance.*?Ksh\s*([\d,]+\.?\d*) anchored at j
BalanceKshAt(s, j) == IF LitAtCI(s, j, <<"b","a","l","a","n","c","e">>) THEN LazyKshAt(s, j + 7) ELSE None

SearchBalanceKsh(s) ==
    LET starts == {j \in 1..Len(s) : BalanceKshAt(s, j) # None}
    IN  IF starts = {} THEN None ELSE BalanceKshAt(s, Min(starts))

\* New.*?balance.*?Ksh\s*([\d,]+\.?\d*) anchored at i: the first lazy .*?
\* stops at the first "balance" on the line from which the rest matches
NewBalanceAt(s, i) ==
    LET js == {j \in (i + 3)..Len(s) : DotSpan(s, i + 3, j) /\ BalanceKshAt(s, j) # None}
    IN  IF LitAtCI(s, i, <<"n","e","w">>) /\ js # {} THEN BalanceKshAt(s, Min(js)) ELSE None

SearchNewBalance(s) ==
    LET starts == {i \in 1..Len(s) : NewBalanceAt(s, i) # None}
    IN  IF starts = {} THEN None ELSE NewBalanceAt(s, Min(starts))

BalanceCaptures(message) ==
    << SearchBalanceIs(message), SearchNewBalance(message), SearchBalanceKsh(message) >>

extract_balance(message) == FirstConverted(message, BalanceCaptures(message))

(* -------------------------- extract_recipient -------------------------- *)

DirectionalPhrases == << <<"s","e","n","t"," ","t","o">>, <<"p","a","i","d"," ","t","o">>, <<"r","e","c","e","i","v","e","d"," ","f","r","o","m">> >>

\* (?:sent to|paid to|received from) anchored at i: the position after the
\* phrase, or 0 (the phrases start with different letters: at most one fits)
PhraseEndAt(s, i) ==
    LET fit == {k \in 1..Len(DirectionalPhrases) : LitAtCI(s, i, DirectionalPhrases[k])}
    IN  IF fit = {} THEN 0 ELSE i + Len(DirectionalPhrases[CHOOSE k \in fit : TRUE])

\* (?:\s+\d|\s+on|\s+Ksh|\.) anchored at q
TerminatorAt(s, q) ==
    LET n == RunEnd(s, q, Space)
    IN  \/ /\ n > q
           /\ \/ At(s, n) \in Digit
              \/ LitAtCI(s, n, <<"o","n">>)
              \/ LitAtCI(s, n, <<"k","s","h">>)
        \/ At(s, q) = "."

\* <phrase>\s+([A-Z\s]+?)(?:<terminator>) under re.IGNORECASE, anchored at i.
\* The backtracking matcher gives the greedy \s+ as many characters as it
\* can (w, tried from the longest down) and the lazy group as few as it can
\* (g, tried from 1 up); [A-Z] matches a letter of either case.
NameAt(s, i) ==
    LET p == PhraseEndAt(s, i)
        W == RunEnd(s, p, Space) - p
        gs(w) == {g \in 1..(Len(s) - (p + w) + 1) :
                    /\ \A k \in 0..(g - 1) : s[p + w + k] \in Letter \cup Space
                    /\ TerminatorAt(s, p + w + g)}
        ws == {w \in 1..W : gs(w) # {}}
    IN  IF p = 0 \/ ws = {} THEN None
        ELSE LET w == CHOOSE x \in ws : \A y \in ws : y <= x
             IN  [from |-> p + w, to |-> p + w + Min(gs(w))]

\* <phrase>\s+(\d+) anchored at i
NumberAt(s, i) ==
    LET p == PhraseEndAt(s, i)
        d == RunEnd(s, p, Space)
        e == RunEnd(s, d, Digit)
    IN  IF p > 0 /\ d > p /\ e > d THEN [from |-> d, to |-> e] ELSE None

\* str.strip()
Strip(t) ==
    LET keep == {k \in 1..Len(t) : t[k] \notin Space}
    IN  IF keep = {} THEN << >>
        ELSE SubSeq(t, Min(keep), CHOOSE k \in keep : \A m \in keep : m <= k)

SearchName(s) ==
    LET starts == {i \in 1..Len(s) : NameAt(s, i) # None}
    IN  IF starts = {} THEN None ELSE NameAt(s, Min(starts))

SearchNumber(s) ==
    LET starts == {i \in 1..Len(s) : NumberAt(s, i) # None}
    IN  IF starts = {} THEN None ELSE NumberAt(s, Min(starts))

extract_recipient(message) ==
    IF SearchName(message) # None THEN Str(Strip(Group(message, SearchName(message))))
    ELSE IF SearchNumber(message) # None THEN Str(Strip(Group(message, SearchNumber(message))))
    ELSE None

(* ---------------------- determine_transaction_type --------------------- *)

\* the class attribute MpesaParser.TRANSACTION_TYPES: a dict, iterated in
\* insertion order
TransactionTypesTable ==
    << [type |-> "SENT",
        keywords |-> << <<"y","o","u"," ","h","a","v","e"," ","s","e","n","t">>, <<"s","e","n","t"," ","t","o">>, <<"p","a","i","d"," ","t","o">>, <<"t","r","a","n","s","f","e","r","r","e","d"," ","t","o">> >>],
       [type |-> "RECEIVED", keywords |-> << <<"y","o","u"," ","h","a","v","e"," ","r","e","c","e","i","v","e","d">>, <<"r","e","c","e","i","v","e","d"," ","f","r","o","m">> >>],
       [type |-> "WITHDRAWN", keywords |-> << <<"w","i","t","h","d","r","a","w">>, <<"w","i","t","h","d","r","a","w","n"," ","f","r","o","m">> >>],
       [type |-> "BOUGHT", keywords |-> << <<"b","o","u","g","h","t">>, <<"a","i","r","t","i","m","e"," ","f","o","r">> >>],
       [type |-> "BALANCE", keywords |-> << <<"b","a","l","a","n","c","e"," ","w","a","s">>, <<"y","o","u","r"," ","b","a","l","a","n","c","e"," ","i","s">> >>],
       [type |-> "REVERSED", keywords |-> << <<"r","e","v","e","r","s","e","d">>, <<"t","r","a","n","s","a","c","t","i","o","n"," ","r","e","v","e","r","s","e","d">> >>],
       [type |-> "PAYBILL", keywords |-> << <<"p","a","i","d"," ","t","o">>, <<"f","o","r"," ","a","c","c","o","u","n","t">> >>] >>

\* mutant of determine_transaction_type: the last matching type wins
determine_transaction_type_LastWins(cls, message) ==
    LET message_lower == LowerStr(message)
        hits == {k \in 1..Len(cls) :
                    \E n \in 1..Len(cls[k].keywords) : Contains(message_lower, cls[k].keywords[n])}
    IN  IF hits = {} THEN "UNKNOWN" ELSE cls[CHOOSE k \in hits : \A m \in hits : m <= k].type

determine_transaction_type(cls, message) ==
    LET message_lower == LowerStr(message)
        hits == {k \in 1..Len(cls) :
                    \E n \in 1..Len(cls[k].keywords) : Contains(message_lower, cls[k].keywords[n])}
    IN  IF hits = {} THEN "UNKNOWN" ELSE cls[Min(hits)].type

(* --------------------------------- parse ------------------------------- *)

\* an exception leaving an extractor (none is raised by the code as written)
Raised(x) == x = ValueError

\* mutant of Assemble: the success flag looks at the amount alone
Assemble_AmountOnly(sender, message, transaction_type, amount, transaction_code, balance, recipient, now) ==
    [sender |-> sender,
     raw_message |-> message,
     transaction_type |-> transaction_type,
     amount |-> amount,
     transaction_code |-> transaction_code,
     balance |-> balance,
     recipient |-> recipient,
     timestamp |-> now,
     parsed_successfully |-> (amount # None)]

\* the dict parse returns
Assemble(sender, message, transaction_type, amount, transaction_code, balance, recipient, now) ==
    [sender |-> sender,
     raw_message |-> message,
     transaction_type |-> transaction_type,
     amount |-> amount,
     transaction_code |-> transaction_code,
     balance |-> balance,
     recipient |-> recipient,
     timestamp |-> now,
     parsed_successfully |-> (amount # None /\ transaction_code # None)]

\* MpesaParser.parse: the returned dict, or the exception that left it
parse(cls, sender, message, now) ==
    IF Raised(extract_amount(message)) \/ Raised(extract_balance(message))
    THEN [exception |-> ValueError]
    ELSE Assemble(sender, message,
                  determine_transaction_type(cls, message),
                  extract_amount(message),
                  extract_transaction_code(message),
                  extract_balance(message),
                  extract_recipient(message),
                  now)

(* --------------------------------- state ------------------------------- *)

\* TRANSACTION_TYPES: the class attribute every classification reads
\* calls:  the invocations of parse, each with its arguments, its position
\*         and its local variables, and its result once it has returned
\* utcnow: the clock datetime.utcnow() and date.today() read
\* transactions: the rows of the table "transactions"
\* daily_limits: the rows of the table "daily_limits"
\* requests: the requests to POST /webhook/sms, each with its payload, its
\*         position in receive_sms, its local variables and its response
VARIABLES TRANSACTION_TYPES, calls, utcnow, transactions, daily_limits, requests

vars == << TRANSACTION_TYPES, calls, utcnow, transactions, daily_limits, requests >>

\* the endpoint's part of the state
web == << transactions, daily_limits, requests >>

(* --------------------------------- inputs ------------------------------ *)

\* the longest run of tokens a generated message is made of
MaxTokens == 3
\* the length of the long digit run (the digits of the largest double: 309)
DigitRun == 309
\* the invocations of parse that may be in progress together
NumCalls == 2
\* the last tick of the clock
MaxTime == 2

RECURSIVE Texts(_, _)
\* the concatenations of at most n tokens of T
Texts(T, n) ==
    IF n = 0 THEN {<< >>}
    ELSE {<< >>} \cup {t \o m : t \in T, m \in Texts(T, n - 1)}

SentSample ==
    <<"R","K","1","2","A","B","3","4","C","D"," ","c","o","n","f","i","r","m","e","d","."," ","Y","o","u"," ","h","a","v","e"," ","s","e","n","t"," ","K","s","h","5","0","0",".","0","0"," ","t","o"," ","J","O","H","N"," ","D","O","E","."," ","N","e","w"," ","M","-","P","E","S","A"," ","b","a","l","a","n","c","e"," ","i","s"," ","K","s","h","1",",","2","3","4",".","5","6",".">>
ReceivedSample ==
    <<"R","K","9","8","X","Y","7","6","Z","W"," ","c","o","n","f","i","r","m","e","d","."," ","Y","o","u"," ","h","a","v","e"," ","r","e","c","e","i","v","e","d"," ","K","s","h","1",",","0","0","0",".","0","0"," ","f","r","o","m"," ","J","A","N","E"," ","S","M","I","T","H","."," ","Y","o","u","r"," ","b","a","l","a","n","c","e"," ","i","s"," ","K","s","h","2",",","2","3","4",".","5","6",".">>
WithdrawnSample ==
    <<"R","M","4","5","C","D","6","7","E","F"," ","c","o","n","f","i","r","m","e","d","."," ","K","s","h","2","0","0",".","0","0"," ","w","i","t","h","d","r","a","w","n"," ","f","r","o","m"," ","M","-","P","E","S","A","."," ","B","a","l","a","n","c","e"," ","w","a","s"," ","K","s","h","2",",","0","3","4",".","5","6",".">>
UnparseableSample == <<"H","e","l","l","o",","," ","t","h","i","s"," ","i","s"," ","a"," ","t","e","s","t",".">>

Nines == [i \in 1..DigitRun |-> "9"]

Samples ==
    { SentSample, ReceivedSample, WithdrawnSample, UnparseableSample,
      <<"K","s","h","1","2",",","3","4","5",",","6","7","8",".","9","0">>,
      <<"R","K","1","2","A","B","3","4","C","D"," ","K","s","h">> \o Nines,
      <<"R","K","1","2","A","B","3","4","C","D"," ","K","s","h","5"," ","b","a","l","a","n","c","e"," ","i","s"," ","K","s","h">> \o Nines \o <<".","5">> }

AmountTokens ==
    { <<"K","s","h">>, <<"K","s","h"," ",",">>, <<"K","E","S">>, <<" ">>, <<"5","0">>, <<"1",",","2","3","4",".","5","6">>, <<"a","m","o","u","n","t"," ","o","f"," ","K","s","h"," ">>, <<".">> }
BalanceTokens ==
    { <<"b","a","l","a","n","c","e"," ","i","s"," ","K","s","h"," ",",">>, <<"B","a","l","a","n","c","e"," ","w","a","s"," ">>, <<"b","a","l","a","n","c","e"," ">>, <<"N","e","w"," ">>, <<"K","s","h"," ","5"," ">>, <<"K","s","h">>, <<"1",",","0",".","5">>, <<"\n">> }
RecipientTokens ==
    { <<"s","e","n","t"," ","t","o"," ">>, <<"p","a","i","d"," ","t","o">>, <<"R","e","c","e","i","v","e","d"," ","F","r","o","m"," ">>, <<"J","O","H","N">>, <<"d","o","e">>, <<" ">>, <<" ","o","n">>, <<".">>, <<"0","7","1","2">>, <<" ","K","s","h">> }
CodeTokens ==
    { <<"R","K","1","2","A","B","3","4","C">>, <<"R","K","1","2">>, <<"D">>, <<"9">>, <<"r","k">>, <<"_">>, <<" ">>, <<"-">> }
TypeTokens ==
    { <<"Y","o","u"," ","h","a","v","e"," ","s","e","n","t">>, <<"p","a","i","d"," ","t","o">>, <<"r","e","c","e","i","v","e","d"," ","f","r","o","m">>, <<"W","I","T","H","D","R","A","W">>, <<"b","o","u","g","h","t">>,
      <<"B","a","l","a","n","c","e"," ","w","a","s">>, <<"r","e","v","e","r","s","e","d">>, <<"f","o","r"," ","a","c","c","o","u","n","t">>, <<" ">>, <<"h","e","l","l","o">> }

Messages ==
    Samples \cup Texts(AmountTokens, MaxTokens) \cup Texts(BalanceTokens, MaxTokens)
            \cup Texts(RecipientTokens, MaxTokens) \cup Texts(CodeTokens, MaxTokens)
            \cup Texts(TypeTokens, MaxTokens)

(* ------------------- parse, one invocation at a time ------------------- *)

\* no request has arrived and the tables are empty (init_db)
NoWeb ==
    /\ transactions = << >>
    /\ daily_limits = << >>
    /\ requests = << >>

Init ==
    /\ TRANSACTION_TYPES = TransactionTypesTable
    /\ utcnow = 0
    /\ NoWeb
    /\ \E message \in Messages :
          calls = << [pc |-> "called", sender |-> <<"M","P","E","S","A">>, message |-> message] >>

\* MpesaParser.parse(sender, message), from call to return
Parse ==
    /\ calls[1].pc = "called"
    /\ calls' = << [pc |-> "returned",
                    sender |-> calls[1].sender,
                    message |-> calls[1].message,
                    result |-> parse(TRANSACTION_TYPES, calls[1].sender, calls[1].message, utcnow)] >>
    /\ UNCHANGED << TRANSACTION_TYPES, utcnow, web >>

Next == Parse

Spec == Init /\ [][Next]_vars


(* ---------------- parse, several invocations interleaved --------------- *)

\* the arguments of the interleaved invocations
ConcInputs ==
    { [sender |-> <<"M","P","E","S","A">>, message |-> <<"R","K","1","2","A","B","3","4","C"," ","s","e","n","t"," ","t","o"," ","B","O","B"," ","K","s","h","5","0",".">>],
      [sender |-> <<"T","E","S","T">>, message |-> <<"R","K","1","2","A","B","3","4","C"," ","s","e","n","t"," ","t","o"," ","B","O","B"," ","K","s","h","5","0",".">>],
      [sender |-> <<"M","P","E","S","A">>, message |-> <<"p","a","i","d"," ","t","o"," ","K","P","L","C"," ","f","o","r"," ","a","c","c","o","u","n","t"," ","1">>] }

InitConc ==
    /\ TRANSACTION_TYPES = TransactionTypesTable
    /\ utcnow = 0
    /\ calls = [i \in 1..NumCalls |-> [pc |-> "idle"]]
    /\ NoWeb

\* a caller invokes MpesaParser.parse(sender, message)
Call(i) ==
    /\ calls[i].pc = "idle"
    /\ \E input \in ConcInputs :
          calls' = [calls EXCEPT ![i] =
                      [pc |-> "called", sender |-> input.sender, message |-> input.message]]
    /\ UNCHANGED << TRANSACTION_TYPES, utcnow, web >>

\* mutant of Classify: the classification consumes the entry it matched
\* (the matching type is popped from the class-level dict)
Classify_PopsMatch(i) ==
    /\ calls[i].pc = "called"
    /\ LET ty == determine_transaction_type(TRANSACTION_TYPES, calls[i].message)
       IN  /\ calls' = [calls EXCEPT ![i] =
                          [pc |-> "classified", sender |-> calls[i].sender,
                           message |-> calls[i].message, transaction_type |-> ty]]
           /\ TRANSACTION_TYPES' = SelectSeq(TRANSACTION_TYPES, LAMBDA e : e.type # ty)
    /\ UNCHANGED << utcnow, web >>

\* line 92: the classification reads cls.TRANSACTION_TYPES
Classify(i) ==
    /\ calls[i].pc = "called"
    /\ calls' = [calls EXCEPT ![i] =
                   [pc |-> "classified", sender |-> calls[i].sender,
                    message |-> calls[i].message,
                    transaction_type |->
                        determine_transaction_type(TRANSACTION_TYPES, calls[i].message)]]
    /\ UNCHANGED << TRANSACTION_TYPES, utcnow, web >>

\* lines 93-96: the four extractors, which read the message alone
Extract(i) ==
    /\ calls[i].pc = "classified"
    /\ LET m == calls[i].message
           amount == extract_amount(m)
           balance == extract_balance(m)
       IN  calls' = [calls EXCEPT ![i] =
                       IF Raised(amount) \/ Raised(balance)
                       THEN [pc |-> "returned", sender |-> calls[i].sender, message |-> m,
                             result |-> [exception |-> ValueError]]
                       ELSE [pc |-> "extracted", sender |-> calls[i].sender, message |-> m,
                             transaction_type |-> calls[i].transaction_type,
                             amount |-> amount,
                             transaction_code |-> extract_transaction_code(m),
                             balance |-> balance,
                             recipient |-> extract_recipient(m)]]
    /\ UNCHANGED << TRANSACTION_TYPES, utcnow, web >>

\* lines 98-108: the dict is built, with the time of the clock, and returned
Return(i) ==
    /\ calls[i].pc = "extracted"
    /\ LET c == calls[i]
       IN  calls' = [calls EXCEPT ![i] =
                       [pc |-> "returned", sender |-> c.sender, message |-> c.message,
                        result |-> Assemble(c.sender, c.message, c.transaction_type, c.amount,
                                            c.transaction_code, c.balance, c.recipient, utcnow)]]
    /\ UNCHANGED << TRANSACTION_TYPES, utcnow, web >>

\* time passes
Tick ==
    /\ utcnow < MaxTime
    /\ utcnow' = utcnow + 1
    /\ UNCHANGED << TRANSACTION_TYPES, calls, web >>

NextConc ==
    \/ \E i \in 1..NumCalls : Call(i) \/ Classify(i) \/ Extract(i) \/ Return(i)
    \/ Tick

SpecConc == InitConc /\ [][NextConc]_vars
(* -------------------- the endpoint POST /webhook/sms ------------------- *)
(* receive_sms runs per request with a database session of its own.  Each  *)
(* action below is the code of one request up to its next statement sent   *)
(* to the database (a query or a commit) or its next await; requests       *)
(* interleave between these.  The clock counts days in this part, and the  *)
(* server's time zone is UTC: a timestamp and date.today() are the day of  *)
(* utcnow.  Of a response, the fields the handlers' branches differ in are *)
(* kept.                                                                   *)

\* the requests that may be in progress together
NumRequests == 2
\* the last day the clock reaches
MaxDay == 1

\* settings.daily_limit
DailyLimitSetting == 2000
\* settings.warning_threshold, in percent
WarningPercent == 70

Payloads ==
    { [sender |-> <<"M","P","E","S","A">>, message |-> <<"R","K","1","2","A","B","3","4","C"," ","s","e","n","t"," ","t","o"," ","B","O","B"," ","K","s","h","5","0",".">>],
      [sender |-> <<"M","P","E","S","A">>, message |-> <<"R","K","1","2","A","B","3","4","C"," ","r","e","c","e","i","v","e","d"," ","f","r","o","m"," ","B","O","B"," ","K","s","h","7","0",".">>],
      [sender |-> <<"M","P","E","S","A">>, message |-> <<"R","K","1","2","A","B","3","4","C"," ","c","o","n","f","i","r","m","e","d",".">>],
      [sender |-> <<"T","E","S","T">>, message |-> <<"R","K","1","2","A","B","3","4","C"," ","s","e","n","t"," ","t","o"," ","B","O","B"," ","K","s","h","5","0",".">>],
      [sender |-> <<"M","P","E","S","A">>, message |-> <<"X","Y","3","4","C","D","5","6","E"," ","w","i","t","h","d","r","a","w"," ","K","s","h","2","0",".","5">>],
      [sender |-> <<"M","P","E","S","A">>, message |-> <<"P","Q","5","6","E","F","7","8","G"," ","p","a","i","d"," ","t","o"," ","C","O","N","T","E","S","T"," ","K","s","h","3","0",".">>] }

OutgoingTypes == {"SENT", "WITHDRAWN", "BOUGHT", "PAYBILL"}

RECURSIVE Num(_)
\* the number a digit string writes
Num(ds) == IF ds = << >> THEN 0 ELSE 10 * Num(SubSeq(ds, 1, Len(ds) - 1)) + DigitVal(ds[Len(ds)])

\* a float of at most two decimals, in hundredths
Cents(f) == 100 * Num(f.int) + Num(SubSeq(f.frac \o <<"0","0">>, 1, 2))

\* date.today()
Today == utcnow

\* line 59: the sender is TEST or the message holds "test"
IsTestMessage(payload) ==
    payload.sender = <<"T","E","S","T">> \/ Contains(LowerStr(payload.message), <<"t","e","s","t">>)

\* db.query(Transaction).filter(Transaction.transaction_code == code).first()
ExistingTransaction(code) ==
    {n \in 1..Len(transactions) : transactions[n].transaction_code = code}

\* db.query(DailyLimit).filter(DailyLimit.date == today).first()
ExistingDailyLimit(today) ==
    {n \in 1..Len(daily_limits) : daily_limits[n].date = today}

RECURSIVE SumCents(_, _)
\* func.sum(Transaction.amount) over the rows ns of the table, in hundredths
SumCents(rows, ns) ==
    IF ns = {} THEN 0
    ELSE LET n == CHOOSE x \in ns : TRUE
         IN  Cents(rows[n].amount) + SumCents(rows, ns \ {n})

\* SpendingAgent.calculate_today_spending: the amounts of the outgoing
\* transactions whose timestamp is not before the start of today
calculate_today_spending ==
    SumCents(transactions,
             {n \in 1..Len(transactions) :
                /\ transactions[n].transaction_type \in OutgoingTypes
                /\ transactions[n].timestamp >= Today})

\* SpendingAgent.check_spending_status on the loaded row
spending_status(row) ==
    LET spent == row.spent_amount
        limit == row.limit_amount
    IN  [date |-> row.date,
         spent |-> spent,
         limit |-> limit,
         remaining |-> limit - spent,
         status |-> IF spent >= limit THEN "EXCEEDED"
                    ELSE IF 100 * spent >= WarningPercent * limit THEN "WARNING"
                    ELSE "SAFE",
         transaction_count |-> row.transaction_count]

\* the request k with its position and local variables replaced
Goto(k, pc, locals) ==
    requests' = [requests EXCEPT ![k] =
                   [f \in DOMAIN locals \cup {"pc", "payload"} |->
                       IF f = "pc" THEN pc
                       ELSE IF f = "payload" THEN requests[k].payload
                       ELSE locals[f]]]

\* the request k answered: JSONResponse, or HTTPException(500) from line 142
Respond(k, response) ==
    requests' = [requests EXCEPT ![k] =
                   [pc |-> "done", payload |-> requests[k].payload, response |-> response]]

InitWeb ==
    /\ TRANSACTION_TYPES = TransactionTypesTable
    /\ utcnow = 0
    /\ calls = << >>
    /\ transactions = << >>
    /\ daily_limits = << >>
    /\ requests = [k \in 1..NumRequests |-> [pc |-> "idle"]]

\* a request arrives with its payload
Receive(k) ==
    /\ requests[k].pc = "idle"
    /\ \E payload \in Payloads :
          requests' = [requests EXCEPT ![k] = [pc |-> "start", payload |-> payload]]
    /\ UNCHANGED << TRANSACTION_TYPES, calls, utcnow, transactions, daily_limits >>

\* lines 59-66: a test message is answered after the Slack notification
TestMessage(k) ==
    /\ requests[k].pc = "start"
    /\ IsTestMessage(requests[k].payload)
    /\ Respond(k, [status |-> "success", message |-> "Test notification sent to Slack"])
    /\ UNCHANGED << TRANSACTION_TYPES, calls, utcnow, transactions, daily_limits >>

\* mutant of Lookup: the transaction code is not looked up before the insert
Lookup_Unchecked(k) ==
    /\ requests[k].pc = "start"
    /\ ~IsTestMessage(requests[k].payload)
    /\ LET parsed == parse(TRANSACTION_TYPES, requests[k].payload.sender,
                          requests[k].payload.message, utcnow)
       IN  IF DOMAIN parsed = {"exception"}
           THEN Respond(k, [status |-> "error", status_code |-> 500])
           ELSE IF ~parsed.parsed_successfully
           THEN Respond(k, [status |-> "received", parsed |-> FALSE])
           ELSE Goto(k, "insert", [parsed |-> parsed])
    /\ UNCHANGED << TRANSACTION_TYPES, calls, utcnow, transactions, daily_limits >>

\* lines 69-88: the message is parsed and the transaction code looked up
Lookup(k) ==
    /\ requests[k].pc = "start"
    /\ ~IsTestMessage(requests[k].payload)
    /\ LET parsed == parse(TRANSACTION_TYPES, requests[k].payload.sender,
                          requests[k].payload.message, utcnow)
       IN  IF DOMAIN parsed = {"exception"}
           THEN Respond(k, [status |-> "error", status_code |-> 500])
           ELSE IF ~parsed.parsed_successfully
           THEN Respond(k, [status |-> "received", parsed |-> FALSE])
           ELSE IF ExistingTransaction(parsed.transaction_code) # {}
           THEN Respond(k, [status |-> "duplicate",
                            transaction_code |-> parsed.transaction_code])
           ELSE Goto(k, "insert", [parsed |-> parsed])
    /\ UNCHANGED << TRANSACTION_TYPES, calls, utcnow, transactions, daily_limits >>

\* the row lines 91-100 build; the column default sets its timestamp
NewTransaction(parsed) ==
    [id |-> Len(transactions) + 1,
     transaction_code |-> parsed.transaction_code,
     transaction_type |-> parsed.transaction_type,
     amount |-> parsed.amount,
     recipient |-> parsed.recipient,
     balance |-> parsed.balance,
     raw_message |-> parsed.raw_message,
     sender |-> parsed.sender,
     timestamp |-> utcnow,
     processed |-> FALSE]

\* lines 91-103: the transaction is added and committed; the unique index on
\* transaction_code refuses a second row with the code, and the exception
\* becomes the answer 500 (lines 140-142)
Insert(k) ==
    /\ requests[k].pc = "insert"
    /\ LET parsed == requests[k].parsed
           row == NewTransaction(parsed)
       IN  IF ExistingTransaction(parsed.transaction_code) # {}
           THEN /\ Respond(k, [status |-> "error", status_code |-> 500])
                /\ UNCHANGED transactions
           ELSE /\ transactions' = Append(transactions, row)
                /\ Goto(k, IF parsed.transaction_type \in OutgoingTypes
                           THEN "update_query" ELSE "status_query",
                        [parsed |-> parsed, transaction |-> row.id])
    /\ UNCHANGED << TRANSACTION_TYPES, calls, utcnow, daily_limits >>

\* what follows get_or_create_daily_limit once it holds the row numbered n:
\* in update_daily_limit the sum query, in check_spending_status lines
\* 63-82 and then lines 118-121 of receive_sms
AfterDailyLimit(k, phase, n, row) ==
    IF phase = "update"
    THEN Goto(k, "sum_query",
              [parsed |-> requests[k].parsed, transaction |-> requests[k].transaction,
               daily_limit |-> n, loaded |-> row])
    ELSE Goto(k, IF requests[k].parsed.transaction_type \in OutgoingTypes
                 THEN "notify" ELSE "mark",
              [parsed |-> requests[k].parsed, transaction |-> requests[k].transaction,
               spending_status |-> spending_status(row)])

\* get_or_create_daily_limit, lines 25-26 (and 39 when the row exists): the
\* query for today's row, from update_daily_limit (line 54) or from
\* check_spending_status (line 62)
LimitQuery(k) ==
    /\ requests[k].pc \in {"update_query", "status_query"}
    /\ LET phase == IF requests[k].pc = "update_query" THEN "update" ELSE "status"
           found == ExistingDailyLimit(Today)
       IN  IF found # {}
           THEN LET n == CHOOSE x \in found : TRUE
                IN  AfterDailyLimit(k, phase, n, daily_limits[n])
           ELSE Goto(k, IF phase = "update" THEN "update_create" ELSE "status_create",
                     [parsed |-> requests[k].parsed, transaction |-> requests[k].transaction,
                      today |-> Today])
    /\ UNCHANGED << TRANSACTION_TYPES, calls, utcnow, transactions, daily_limits >>

\* get_or_create_daily_limit, lines 28-39: today's row is added and
\* committed; the unique index on date refuses a second row of the day
LimitCreate(k) ==
    /\ requests[k].pc \in {"update_create", "status_create"}
    /\ LET phase == IF requests[k].pc = "update_create" THEN "update" ELSE "status"
           row == [id |-> Len(daily_limits) + 1,
                   date |-> requests[k].today,
                   limit_amount |-> 100 * DailyLimitSetting,
                   spent_amount |-> 0,
                   transaction_count |-> 0]
       IN  IF ExistingDailyLimit(requests[k].today) # {}
           THEN /\ Respond(k, [status |-> "error", status_code |-> 500])
                /\ UNCHANGED daily_limits
           ELSE /\ daily_limits' = Append(daily_limits, row)
                /\ AfterDailyLimit(k, phase, row.id, row)
    /\ UNCHANGED << TRANSACTION_TYPES, calls, utcnow, transactions >>

\* update_daily_limit, line 55: the sum of today's outgoing amounts is
\* queried and assigned to the loaded row
SumQuery(k) ==
    /\ requests[k].pc = "sum_query"
    /\ Goto(k, "update_commit",
            [parsed |-> requests[k].parsed, transaction |-> requests[k].transaction,
             daily_limit |-> requests[k].daily_limit, loaded |-> requests[k].loaded,
             spent_amount |-> calculate_today_spending])
    /\ UNCHANGED << TRANSACTION_TYPES, calls, utcnow, transactions, daily_limits >>

\* update_daily_limit, lines 56-58: the count of the loaded row is
\* incremented and the changed attributes are written to the row
UpdateCommit(k) ==
    /\ requests[k].pc = "update_commit"
    /\ LET n == requests[k].daily_limit
           loaded == requests[k].loaded
       IN  daily_limits' =
              [daily_limits EXCEPT
                 ![n].spent_amount =
                     IF requests[k].spent_amount # loaded.spent_amount
                     THEN requests[k].spent_amount ELSE @,
                 ![n].transaction_count = loaded.transaction_count + 1]
    /\ Goto(k, "status_query",
            [parsed |-> requests[k].parsed, transaction |-> requests[k].transaction])
    /\ UNCHANGED << TRANSACTION_TYPES, calls, utcnow, transactions >>

\* lines 121-122: the await of the Slack notification of an outgoing type
Notify(k) ==
    /\ requests[k].pc = "notify"
    /\ Goto(k, "mark",
            [parsed |-> requests[k].parsed, transaction |-> requests[k].transaction,
             spending_status |-> requests[k].spending_status])
    /\ UNCHANGED << TRANSACTION_TYPES, calls, utcnow, transactions, daily_limits >>

\* lines 125-138: the transaction is marked processed and the request
\* answered
MarkProcessed(k) ==
    /\ requests[k].pc = "mark"
    /\ transactions' = [transactions EXCEPT ![requests[k].transaction].processed = TRUE]
    /\ Respond(k, [status |-> "success",
                   transaction_code |-> requests[k].parsed.transaction_code,
                   transaction_type |-> requests[k].parsed.transaction_type,
                   amount |-> requests[k].parsed.amount,
                   spending_status |-> requests[k].spending_status])
    /\ UNCHANGED << TRANSACTION_TYPES, calls, utcnow, daily_limits >>

\* a day passes
NextDay ==
    /\ utcnow < MaxDay
    /\ utcnow' = utcnow + 1
    /\ UNCHANGED << TRANSACTION_TYPES, calls, web >>

NextWeb ==
    \/ \E k \in 1..NumRequests :
          \/ Receive(k) \/ TestMessage(k) \/ Lookup(k) \/ Insert(k)
          \/ LimitQuery(k) \/ LimitCreate(k) \/ SumQuery(k) \/ UpdateCommit(k)
          \/ Notify(k) \/ MarkProcessed(k)
    \/ NextDay

SpecWeb == InitWeb /\ [][NextWeb]_vars

(* ------------------------- claims about parse -------------------------- *)

\* the invocations that returned a dict
ReturnedCalls ==
    {i \in DOMAIN calls : calls[i].pc = "returned" /\ DOMAIN calls[i].result # {"exception"}}

TypeTags ==
    {"SENT", "RECEIVED", "WITHDRAWN", "BOUGHT", "BALANCE", "REVERSED", "PAYBILL", "UNKNOWN"}

ResultFields ==
    {"sender", "raw_message", "transaction_type", "amount", "transaction_code",
     "balance", "recipient", "timestamp", "parsed_successfully"}

\* C1: in every record parse returns, parsed_successfully is true exactly
\* when amount and transaction_code are both present; a record without a
\* transaction code is never parsed_successfully.
C1_SuccessIffAmountAndCode ==
    \A i \in ReturnedCalls :
        LET r == calls[i].result
        IN  /\ r.parsed_successfully <=> (r.amount # None /\ r.transaction_code # None)
            /\ r.transaction_code = None => ~r.parsed_successfully

\* a record with an amount and a balance but no code, not parsed_successfully
C1_Witness ==
    \E i \in ReturnedCalls :
        LET r == calls[i].result
        IN  r.amount # None /\ r.balance # None /\ r.transaction_code = None
            /\ ~r.parsed_successfully

\* C2: every invocation that has returned has returned a record (no
\* exception left parse), with every field set, a failed extraction showing
\* as None only, and transaction_type one of the eight tags.
C2_ParseTotal ==
    \A i \in DOMAIN calls :
        calls[i].pc = "returned" =>
            LET r == calls[i].result
            IN  /\ DOMAIN r = ResultFields
                /\ r.transaction_type \in TypeTags
                /\ r.amount.t \in {"None", "float", "inf"}
                /\ r.balance.t \in {"None", "float", "inf"}
                /\ r.transaction_code.t \in {"None", "str"}
                /\ r.recipient.t \in {"None", "str"}
                /\ r.raw_message = calls[i].message
                /\ r.sender = calls[i].sender

\* a pattern of extract_amount matched a capture without a digit (float()
\* raises on it) and parse returned a record whose amount is None
C2_Witness ==
    \E i \in ReturnedCalls :
        LET m == calls[i].message
            caps == AmountCaptures(m)
        IN  /\ \E k \in 1..Len(caps) :
                  caps[k] # None /\ \A j \in caps[k].from..(caps[k].to - 1) : m[j] \notin Digit
            /\ calls[i].result.amount = None

\* the declaration order the claim names
ClaimedOrder == << "SENT", "RECEIVED", "WITHDRAWN", "BOUGHT", "BALANCE", "REVERSED", "PAYBILL" >>

\* the type ty has a trigger phrase in the lowercased message
TypeTriggered(message, ty) ==
    \E k \in 1..Len(TransactionTypesTable) :
        /\ TransactionTypesTable[k].type = ty
        /\ \E n \in 1..Len(TransactionTypesTable[k].keywords) :
              \E a \in 1..Len(message) :
                  LitAtCI(message, a, TransactionTypesTable[k].keywords[n])

\* C3: the returned type is the first type of the order SENT, RECEIVED,
\* WITHDRAWN, BOUGHT, BALANCE, REVERSED, PAYBILL with a trigger phrase in the
\* lowercased message, and UNKNOWN exactly when no type has one; a message
\* containing "paid to" is SENT.
C3_FirstDeclaredTypeWins ==
    \A i \in ReturnedCalls :
        LET m == calls[i].message
            ty == calls[i].result.transaction_type
            hit == {k \in 1..Len(ClaimedOrder) : TypeTriggered(m, ClaimedOrder[k])}
        IN  /\ hit = {} <=> ty = "UNKNOWN"
            /\ hit # {} => ty = ClaimedOrder[Min(hit)]
            /\ Contains(LowerStr(m), <<"p","a","i","d"," ","t","o">>) => ty = "SENT"

\* a message with trigger phrases of two types, classified as the earlier
C3_Witness ==
    \E i \in ReturnedCalls :
        LET m == calls[i].message
        IN  /\ TypeTriggered(m, "RECEIVED") /\ TypeTriggered(m, "PAYBILL")
            /\ ~TypeTriggered(m, "SENT")
            /\ calls[i].result.transaction_type = "RECEIVED"

\* C4: parsing the SENT sample gives type SENT, amount 500.00, code
\* RK12AB34CD, balance 1234.56, recipient JOHN DOE and parsed_successfully.
C4_SentSample ==
    \A i \in ReturnedCalls :
        calls[i].message = SentSample =>
            LET r == calls[i].result
            IN  /\ r.transaction_type = "SENT"
                /\ r.amount = Float(<<"5","0","0">>, << >>)
                /\ r.transaction_code = Str(<<"R","K","1","2","A","B","3","4","C","D">>)
                /\ r.balance = Float(<<"1","2","3","4">>, <<"5","6">>)
                /\ r.recipient = Str(<<"J","O","H","N"," ","D","O","E">>)
                /\ r.parsed_successfully

\* what C5 says of a returned recipient v: the message holds a directional
\* phrase, and v is (a) the trimmed run of uppercase letters and spaces
\* between the phrase and a terminator, or (b) the digit run after the phrase
ClaimedRecipient(s, v) ==
    \E i \in 1..Len(s) :
        LET p == PhraseEndAt(s, i)
        IN  /\ p > 0
            /\ \/ \E a \in p..(Len(s) + 1), b \in p..(Len(s) + 1) :
                     /\ a <= b
                     /\ \A k \in p..(a - 1) : s[k] \in Space
                     /\ \A k \in a..(b - 1) : s[k] \in Upper \cup Space
                     /\ \/ TerminatorAt(s, b)
                        \/ At(s, b) \in Digit
                        \/ LitAtCI(s, b, <<"o","n">>)
                        \/ LitAtCI(s, b, <<"k","s","h">>)
                     /\ v = Strip(SubSeq(s, a, b - 1))
               \/ \E d \in (p + 1)..Len(s) :
                     /\ \A k \in p..(d - 1) : s[k] \in Space
                     /\ RunEnd(s, d, Digit) > d
                     /\ v = SubSeq(s, d, RunEnd(s, d, Digit) - 1)

\* C5: extract_recipient returns a value only for a message with a
\* directional phrase, and the value is the trimmed run of uppercase letters
\* and spaces between the phrase and a terminator, or the digit run after
\* the phrase.
C5_RecipientShape ==
    \A i \in ReturnedCalls :
        LET r == calls[i].result
        IN  r.recipient # None => ClaimedRecipient(calls[i].message, r.recipient.v)

\* [A-Z]{2}\d{2}[A-Z0-9]{n-4} at position i
CodeShapeAt(s, i, n) ==
    /\ At(s, i) \in Upper /\ At(s, i + 1) \in Upper
    /\ At(s, i + 2) \in Digit /\ At(s, i + 3) \in Digit
    /\ \A k \in 4..(n - 1) : At(s, i + k) \in Upper \cup Digit

\* the leftmost substring of 9 or 10 characters of the code shape with no
\* character of W before or after it, or None
LeftmostCode(s, W) ==
    LET found == {x \in (1..Len(s)) \X {9, 10} :
                    /\ CodeShapeAt(s, x[1], x[2])
                    /\ At(s, x[1] - 1) \notin W
                    /\ At(s, x[1] + x[2]) \notin W}
    IN  IF found = {} THEN None
        ELSE LET x == CHOOSE y \in found : \A z \in found : y[1] <= z[1]
             IN  Str(SubSeq(s, x[1], x[1] + x[2] - 1))

\* C6 as stated: the transaction code is the leftmost substring of the code
\* shape that no alphanumeric character precedes or follows, and None when
\* there is none.
C6_CodeIsLeftmostAlnumWord ==
    \A i \in ReturnedCalls :
        calls[i].result.transaction_code = LeftmostCode(calls[i].message, Letter \cup Digit)

\* C6, amended: the transaction code is the leftmost substring of the code
\* shape that no letter, digit or underscore precedes or follows, and None
\* when there is none; it is 9 or 10 characters long.
C6_CodeIsLeftmostWord ==
    \A i \in ReturnedCalls :
        LET code == calls[i].result.transaction_code
        IN  /\ code = LeftmostCode(calls[i].message, Letter \cup Digit \cup {"_"})
            /\ code # None => Len(code.v) \in {9, 10}

\* a 10-character code was returned from inside a message: a character
\* that is no letter, digit or underscore precedes it
C6_Witness ==
    \E i \in ReturnedCalls :
        LET m == calls[i].message
            code == calls[i].result.transaction_code
        IN  /\ code # None
            /\ Len(code.v) = 10
            /\ m[1] = "-"
            /\ SubSeq(m, 2, 11) = code.v

\* the captured text of span c holds a digit (float() converts it)
HoldsDigit(s, c) == \E j \in c.from..(c.to - 1) : s[j] \in Digit

\* what C7 says of the value an extractor returns, given the group-1 spans
\* of its patterns: once a pattern matched a capture that does not convert,
\* the value is that of the next pattern in order that matches and converts,
\* or None
FailedThenNext(s, caps, value) ==
    \A k \in 1..Len(caps) :
        (/\ caps[k] # None /\ ~HoldsDigit(s, caps[k])
         /\ \A j \in 1..(k - 1) : caps[j] = None \/ ~HoldsDigit(s, caps[j]))
        => LET later == {j \in (k + 1)..Len(caps) : caps[j] # None /\ HoldsDigit(s, caps[j])}
           IN  IF later = {} THEN value = None
               ELSE value = ToFloat(RemoveCommas(Group(s, caps[Min(later)])))

\* C7: in extract_amount and extract_balance, a pattern whose capture does
\* not convert raises nothing: the value is that of the next pattern in
\* declared order that matches and converts, and None if there is none.
C7_FailedConversionContinues ==
    \A i \in DOMAIN calls :
        calls[i].pc = "returned" =>
            LET m == calls[i].message
                r == calls[i].result
            IN  /\ DOMAIN r # {"exception"}
                /\ FailedThenNext(m, AmountCaptures(m), r.amount)
                /\ FailedThenNext(m, BalanceCaptures(m), r.balance)

\* the first pattern of extract_amount captured no digit and a later
\* pattern gave the amount; likewise for extract_balance in some message
C7_Witness ==
    \E i \in ReturnedCalls :
        LET m == calls[i].message
            caps == AmountCaptures(m)
        IN  /\ caps[1] # None /\ ~HoldsDigit(m, caps[1])
            /\ calls[i].result.amount # None

\* C9: an amount or balance that parse returns is a finite, non-negative
\* number.
C9_MoneyFinite ==
    \A i \in ReturnedCalls :
        LET r == calls[i].result
        IN  /\ r.amount # None => r.amount.t = "float"
            /\ r.balance # None => r.balance.t = "float"

\* a returned record without its timestamp
Timeless(r) == [f \in DOMAIN r \ {"timestamp"} |-> r[f]]

\* C10: two invocations of parse with the same sender and message return
\* records that agree on every field but timestamp, whatever ran before or
\* between them, and the trigger-phrase table is never changed.
C10_ParseDependsOnInputsOnly ==
    /\ TRANSACTION_TYPES = TransactionTypesTable
    /\ \A i \in DOMAIN calls : calls[i].pc = "returned" => DOMAIN calls[i].result = ResultFields
    /\ \A i, j \in ReturnedCalls :
          (calls[i].sender = calls[j].sender /\ calls[i].message = calls[j].message)
          => Timeless(calls[i].result) = Timeless(calls[j].result)

\* two invocations with the same arguments have returned at different times
C10_Witness ==
    \E i, j \in ReturnedCalls :
        /\ calls[i].sender = calls[j].sender /\ calls[i].message = calls[j].message
        /\ calls[i].result.timestamp # calls[j].result.timestamp
        /\ calls[i].result.parsed_successfully

(* ----------------------- claims about the endpoint --------------------- *)

\* no two rows of the table transactions hold the same transaction_code
UniqueCodes ==
    \A a, b \in 1..Len(transactions) :
        transactions[a].transaction_code = transactions[b].transaction_code => a = b

\* the transaction code parse extracts from the payload of request k
ParsedCode(k) ==
    parse(TRANSACTION_TYPES, requests[k].payload.sender, requests[k].payload.message, 0).transaction_code

\* request k starts to be handled in this step
Handled(k) == requests[k].pc = "start" /\ requests'[k].pc # "start"

\* request k is answered "duplicate" in this step, and no row of either
\* table is added or changed
AnsweredDuplicate(k) ==
    /\ requests'[k].pc = "done"
    /\ requests'[k].response.status = "duplicate"
    /\ UNCHANGED << transactions, daily_limits >>

\* C8 as stated: no two stored transactions share a transaction_code, and a
\* request whose parsed transaction_code is already stored is answered
\* "duplicate" without a transaction added or a daily-limit record changed.
C8_DuplicateByParsedCode ==
    /\ []UniqueCodes
    /\ [][\A k \in 1..NumRequests :
            (Handled(k) /\ ExistingTransaction(ParsedCode(k)) # {}) => AnsweredDuplicate(k)]_vars

\* C8, amended: no two stored transactions share a transaction_code, and a
\* request that is no test message, whose message parses successfully and
\* whose transaction_code is stored when the endpoint looks it up, is
\* answered "duplicate" without a transaction added or a daily-limit record
\* changed.
C8_DuplicateOfParsedMessage ==
    /\ []UniqueCodes
    /\ [][\A k \in 1..NumRequests :
            (/\ Handled(k)
             /\ ~IsTestMessage(requests[k].payload)
             /\ parse(TRANSACTION_TYPES, requests[k].payload.sender,
                      requests[k].payload.message, 0).parsed_successfully
             /\ ExistingTransaction(ParsedCode(k)) # {})
            => AnsweredDuplicate(k)]_vars

\* a request was answered "duplicate" for the code of a transaction that
\* another request had stored and finished processing, and the store holds
\* that one transaction
C8_Witness ==
    \E k, j \in 1..NumRequests :
        /\ requests[k].pc = "done" /\ requests[k].response.status = "duplicate"
        /\ requests[j].pc = "done" /\ requests[j].response.status = "success"
        /\ "transaction_code" \in DOMAIN requests[j].response
        /\ requests[j].response.transaction_code = requests[k].response.transaction_code
        /\ Len(transactions) = 1
        /\ daily_limits # << >>

\* what parse extracts from the payload of request k
ParsedPayload(k) ==
    parse(TRANSACTION_TYPES, requests[k].payload.sender, requests[k].payload.message, 0)

\* C11: a finished request whose message parses successfully leaves its
\* transaction code stored exactly once (by itself, or already there), and
\* the transaction a request answered "success" has stored carries the code,
\* type and amount of its message; so a request stores nothing only when its
\* message does not parse successfully or its code is already stored.
C11_ParsedMessageIsStored ==
    \A k \in 1..NumRequests :
        (requests[k].pc = "done" /\ ParsedPayload(k).parsed_successfully) =>
            LET parsed == ParsedPayload(k)
                stored == ExistingTransaction(parsed.transaction_code)
            IN  /\ Cardinality(stored) = 1
                /\ requests[k].response.status = "success" =>
                      \A n \in stored :
                          /\ transactions[n].transaction_type = parsed.transaction_type
                          /\ transactions[n].amount = parsed.amount

\* the outgoing transactions among rows that were ingested on day d
OutgoingOn(rows, d) ==
    {n \in 1..Len(rows) :
        /\ rows[n].transaction_type \in OutgoingTypes
        /\ rows[n].timestamp = d}

\* among limits, the record of day d holds the sum and the number of the
\* outgoing transactions of that day among rows
RecordMatches(rows, limits, d) ==
    \E n \in 1..Len(limits) :
        /\ limits[n].date = d
        /\ limits[n].spent_amount = SumCents(rows, OutgoingOn(rows, d))
        /\ limits[n].transaction_count = Cardinality(OutgoingOn(rows, d))

\* request k, which has stored an outgoing transaction, is answered in this
\* step, and the record of the day of its transaction then matches the store
FinishedOutgoingMatches(k) ==
    (/\ requests[k].pc = "mark"
     /\ requests'[k].pc = "done"
     /\ requests[k].parsed.transaction_type \in OutgoingTypes)
    => RecordMatches(transactions', daily_limits',
                     transactions[requests[k].transaction].timestamp)

\* request k, which is storing or has stored a transaction of another type,
\* takes a step that leaves the sum and the count of every daily-limit
\* record as they were
OtherTypeLeavesRecords(k) ==
    (/\ requests[k] # requests'[k]
     /\ "parsed" \in DOMAIN requests[k]
     /\ requests[k].parsed.transaction_type \notin OutgoingTypes)
    => \A n \in 1..Len(daily_limits) :
          /\ daily_limits'[n].spent_amount = daily_limits[n].spent_amount
          /\ daily_limits'[n].transaction_count = daily_limits[n].transaction_count

\* C12: when the endpoint finishes processing a newly stored outgoing
\* transaction, the daily-limit record of its day has spent_amount equal to
\* the sum of the amounts of the stored outgoing transactions of that day and
\* transaction_count equal to their number; storing a transaction of another
\* type leaves spent_amount and transaction_count unchanged.
C12_DailyLimitMatchesStore ==
    [][\A k \in 1..NumRequests :
          FinishedOutgoingMatches(k) /\ OtherTypeLeavesRecords(k)]_vars

====
